---- MODULE Spec2Model ----
(***************************************************************************)
(* Model of the schedule planner's calendar component (src/unnamed/part_001): *)
(* the time parser, the date-time combiner, the group classifier, the row  *)
(* normalizer of both upload paths and the event store with its handlers.  *)
(*                                                                         *)
(* Strings are sequences of one-character strings, so that the regular     *)
(* expressions of the source are computed on the characters.  A cell value *)
(* is a record [t, s]: t = "str" for a string, t = "num" for a number, and *)
(* s is what toString() gives.  Timestamps are wall-clock values with the  *)
(* local zone taken as UTC: a day number since 1970-01-01 and a minute of  *)
(* the day.                                                                *)
(***************************************************************************)
EXTENDS Integers, Sequences, FiniteSets, TLC

VARIABLES
    events,         \* useState([]) line 171: the event store
    selectedSlot,   \* line 172: TRUE when a slot is selected (modal "Add Event")
    selectedEvent,  \* line 173: 0 = null, i > 0 = events[i], -1 = an object no longer in events
    uploadStatus,   \* line 175: [msg, n]
    isProcessing,   \* line 178
    availableGroups, \* line 177: the group listing, set by the effect of lines 181-211
    pending,        \* the upload in flight: [phase, file]
    tcase, tout,    \* parseTime: input description and result
    gcase, gout,    \* deriveLearnerGroup: arguments and result
    rcase, rout     \* row normalizer: one row with its source kind, and the emitted records

vars == <<events, selectedSlot, selectedEvent, uploadStatus, isProcessing, pending,
          availableGroups, tcase, tout, gcase, gout, rcase, rout>>

storeVars == <<events, selectedSlot, selectedEvent, uploadStatus, isProcessing, pending,
               availableGroups>>

-----------------------------------------------------------------------------
(* Characters and strings *)

Digits == <<"0", "1", "2", "3", "4", "5", "6", "7", "8", "9">>

Lowers == <<"a", "b", "c", "d", "e", "f", "g", "h", "i", "j", "k", "l", "m",
            "n", "o", "p", "q", "r", "s", "t", "u", "v", "w", "x", "y", "z">>

Uppers == <<"A", "B", "C", "D", "E", "F", "G", "H", "I", "J", "K", "L", "M",
            "N", "O", "P", "Q", "R", "S", "T", "U", "V", "W", "X", "Y", "Z">>

Range(f) == {f[i] : i \in DOMAIN f}

IsDigit(c) == c \in Range(Digits)

IsAlpha(c) == c \in Range(Lowers) \cup Range(Uppers)

IsSpace(c) == c \in {" ", "\t"}

DigitVal(c) == (CHOOSE i \in 1..10 : Digits[i] = c) - 1

LowerChar(c) ==
    IF c \in Range(Uppers) THEN Lowers[CHOOSE i \in 1..26 : Uppers[i] = c] ELSE c

UpperChar(c) ==
    IF c \in Range(Lowers) THEN Uppers[CHOOSE i \in 1..26 : Lowers[i] = c] ELSE c

ToLower(s) == [i \in 1..Len(s) |-> LowerChar(s[i])]

ToUpper(s) == [i \in 1..Len(s) |-> UpperChar(s[i])]

AllDigits(s) == \A i \in 1..Len(s) : IsDigit(s[i])

RECURSIVE TrimLeft(_)
TrimLeft(s) == IF s # <<>> /\ IsSpace(Head(s)) THEN TrimLeft(Tail(s)) ELSE s

RECURSIVE TrimRight(_)
TrimRight(s) ==
    IF s # <<>> /\ IsSpace(s[Len(s)]) THEN TrimRight(SubSeq(s, 1, Len(s) - 1)) ELSE s

Trim(s) == TrimRight(TrimLeft(s))

StartsWith(s, p) == Len(s) >= Len(p) /\ SubSeq(s, 1, Len(p)) = p

\* The decimal digits of a natural number, as toString() writes them.
RECURSIVE NatStr(_)
NatStr(n) == IF n < 10 THEN <<Digits[n + 1]>> ELSE NatStr(n \div 10) \o <<Digits[(n % 10) + 1]>>

\* A number padded to two digits ("09"), as the spreadsheet or the user writes it.
Pad2(n) == IF n < 10 THEN <<"0">> \o NatStr(n) ELSE NatStr(n)

Str(s) == [t |-> "str", s |-> s]

Num(s) == [t |-> "num", s |-> s]

EmptyCell == Str(<<>>)

\* JavaScript truthiness of a cell: "" and the numbers 0 and -0 are falsy.
Truthy(cell) ==
    IF cell.t = "num" THEN cell.s \notin {<<"0">>, <<"-", "0">>} ELSE cell.s # <<>>

\* Op applied to v, with v bound to its value once (a const binding of the source).
Eval(Op(_), v) == CHOOSE r \in {Op(x) : x \in {v}} : TRUE

-----------------------------------------------------------------------------
(* Numbers: NaN stands for the JavaScript value NaN. *)

NaN == -2147483647

JsLt(a, b) == a # NaN /\ b # NaN /\ a < b

JsGt(a, b) == a # NaN /\ b # NaN /\ a > b

JsAdd(a, b) == IF a = NaN \/ b = NaN THEN NaN ELSE a + b

\* The value of the longest prefix of digits of s, or NaN when there is none.
RECURSIVE DigitsPrefix(_, _, _)
DigitsPrefix(s, acc, seen) ==
    IF s # <<>> /\ IsDigit(Head(s))
    THEN DigitsPrefix(Tail(s), acc * 10 + DigitVal(Head(s)), TRUE)
    ELSE IF seen THEN acc ELSE NaN

\* parseInt(s, 10): leading white space, an optional sign, then digits.
parseInt(s) ==
    LET t == TrimLeft(s) IN
    IF t # <<>> /\ Head(t) = "-"
    THEN LET v == DigitsPrefix(Tail(t), 0, FALSE) IN IF v = NaN THEN NaN ELSE 0 - v
    ELSE IF t # <<>> /\ Head(t) = "+" THEN DigitsPrefix(Tail(t), 0, FALSE)
    ELSE DigitsPrefix(t, 0, FALSE)

-----------------------------------------------------------------------------
(* Time parser *)

TimeNull == [isNull |-> TRUE, hours |-> 0, minutes |-> 0]

Time(h, m) == [isNull |-> FALSE, hours |-> h, minutes |-> m]

NoMatch == [ok |-> FALSE, g1 |-> <<>>, has2 |-> FALSE, g2 |-> <<>>, has3 |-> FALSE, g3 |-> <<>>]

\* cleaned.match(/^(\d{1,2}):?(\d{2})$/), line 82
MilitaryMatch(s) ==
    LET ok(hl, c) ==
            /\ Len(s) = hl + c + 2
            /\ AllDigits(SubSeq(s, 1, hl))
            /\ (c = 1 => s[hl + 1] = ":")
            /\ AllDigits(SubSeq(s, hl + c + 1, hl + c + 2))
        m(hl, c) == [ok |-> TRUE, g1 |-> SubSeq(s, 1, hl), has2 |-> TRUE,
                     g2 |-> SubSeq(s, hl + c + 1, hl + c + 2), has3 |-> FALSE, g3 |-> <<>>]
    IN  IF ok(2, 1) THEN m(2, 1)
        ELSE IF ok(2, 0) THEN m(2, 0)
        ELSE IF ok(1, 1) THEN m(1, 1)
        ELSE IF ok(1, 0) THEN m(1, 0)
        ELSE NoMatch

\* The position after the white space that starts at p (\s* is greedy).
RECURSIVE SkipSpace(_, _)
SkipSpace(s, p) == IF p <= Len(s) /\ IsSpace(s[p]) THEN SkipSpace(s, p + 1) ELSE p

\* cleaned.match(/(\d{1,2})(?::(\d{2}))?\s*([ap]m)/i), line 91: the leftmost
\* match, the hour taking two digits before one, the minutes group tried
\* before it is left out.
TwelveHourMatch(s) ==
    LET n == Len(s)
        period(p) == LET q == SkipSpace(s, p) IN
                     q + 1 <= n /\ LowerChar(s[q]) \in {"a", "p"} /\ LowerChar(s[q + 1]) = "m"
        hourAt(i, hl) == i + hl - 1 <= n /\ AllDigits(SubSeq(s, i, i + hl - 1))
        minAt(p) == p + 2 <= n /\ s[p] = ":" /\ AllDigits(SubSeq(s, p + 1, p + 2))
        ok(i, hl, wm) ==
            /\ hourAt(i, hl)
            /\ IF wm THEN minAt(i + hl) /\ period(i + hl + 3) ELSE period(i + hl)
        m(i, hl, wm) ==
            LET q == SkipSpace(s, IF wm THEN i + hl + 3 ELSE i + hl) IN
            [ok |-> TRUE, g1 |-> SubSeq(s, i, i + hl - 1), has2 |-> wm,
             g2 |-> IF wm THEN SubSeq(s, i + hl + 1, i + hl + 2) ELSE <<>>,
             has3 |-> TRUE, g3 |-> SubSeq(s, q, q + 1)]
        at(i) == IF ok(i, 2, TRUE) THEN m(i, 2, TRUE)
                 ELSE IF ok(i, 2, FALSE) THEN m(i, 2, FALSE)
                 ELSE IF ok(i, 1, TRUE) THEN m(i, 1, TRUE)
                 ELSE IF ok(i, 1, FALSE) THEN m(i, 1, FALSE)
                 ELSE NoMatch
        pos == {i \in 1..n : at(i).ok}
    IN  IF pos = {} THEN NoMatch ELSE at(CHOOSE i \in pos : \A j \in pos : i <= j)

Noon == <<"n", "o", "o", "n">>

Midnight == <<"m", "i", "d", "n", "i", "g", "h", "t">>

\* cleaned.match(/(noon|midnight)/i), line 92: group 1 is the word, there is
\* no group 2 and no group 3.
WordMatch(s) ==
    LET n == Len(s)
        wordAt(i, w) == i + Len(w) - 1 <= n /\ ToLower(SubSeq(s, i, i + Len(w) - 1)) = w
        at(i) == IF wordAt(i, Noon) THEN Noon ELSE IF wordAt(i, Midnight) THEN Midnight ELSE <<>>
        pos == {i \in 1..n : at(i) # <<>>}
    IN  IF pos = {} THEN NoMatch
        ELSE LET i == CHOOSE i \in pos : \A j \in pos : i <= j IN
             [ok |-> TRUE, g1 |-> SubSeq(s, i, i + Len(at(i)) - 1), has2 |-> FALSE, g2 |-> <<>>,
              has3 |-> FALSE, g3 |-> <<>>]

\* MilitaryResult with an off-by-one range check: hour 24 and minute 60 pass.
MilitaryResult_offByOne(hours, minutes) ==
    IF JsGt(hours, 24) \/ JsGt(minutes, 60) THEN TimeNull ELSE Time(hours, minutes)

\* lines 86-87
MilitaryResult(hours, minutes) ==
    IF JsGt(hours, 23) \/ JsGt(minutes, 59) THEN TimeNull ELSE Time(hours, minutes)

\* lines 94-102: m is the match of line 91 or, failing that, of line 92.
TwelveHourResult(m) ==
    LET hours0 == IF m.g1 # <<>> THEN parseInt(m.g1) ELSE 0
        minutes == IF m.has2 /\ m.g2 # <<>> THEN parseInt(m.g2) ELSE 0
        \* twelveHourMatch[3]?.toLowerCase(): undefined when there is no group 3
        hasPeriod == m.has3
        period == ToLower(m.g3)
        hours1 == IF hasPeriod /\ period = Noon THEN 12 ELSE hours0
        hours2 == IF hasPeriod /\ period = Midnight THEN 0 ELSE hours1
        hours3 == IF hasPeriod /\ period = <<"p", "m">> /\ hours2 # 12
                  THEN JsAdd(hours2, 12) ELSE hours2
        hours == IF hasPeriod /\ period = <<"a", "m">> /\ hours3 = 12 THEN 0 ELSE hours3
    IN  IF JsLt(hours, 0) \/ JsGt(hours, 23) \/ JsLt(minutes, 0) \/ JsGt(minutes, 59)
        THEN TimeNull
        ELSE Time(hours, minutes)

\* lines 83-88
MilitaryBranch(militaryMatch) ==
    MilitaryResult(parseInt(militaryMatch.g1),
                   parseInt(IF militaryMatch.g2 # <<>> THEN militaryMatch.g2 ELSE <<"0", "0">>))

\* lines 90-105
TwelveHourBranch(cleaned) ==
    LET first == TwelveHourMatch(cleaned)
        twelveHourMatch == IF first.ok THEN first ELSE WordMatch(cleaned)
    IN  IF twelveHourMatch.ok THEN Eval(TwelveHourResult, twelveHourMatch) ELSE TimeNull

\* lines 80-105
ParseCleaned(cleaned) ==
    LET militaryMatch == MilitaryMatch(cleaned) IN
    IF militaryMatch.ok THEN Eval(MilitaryBranch, militaryMatch) ELSE TwelveHourBranch(cleaned)

\* lines 74-110.  A native Date cell (line 77) is not among the cell values
\* of this model.
parseTime(timeValue) ==
    IF ~Truthy(timeValue) THEN TimeNull
    ELSE Eval(ParseCleaned, ToLower(Trim(timeValue.s)))

-----------------------------------------------------------------------------
(* Group classifier *)

Ungrouped == <<"U", "n", "g", "r", "o", "u", "p", "e", "d">>

GroupLetters == {"A", "B", "C", "D", "E", "F", "G", "H"}

GroupDigits == {"1", "2"}

\* The keys of groupColors, lines 458-475: the 16 codes.
GroupCodes == {<<l, d>> : l \in GroupLetters, d \in GroupDigits}

\* expectedPattern = /^[A-H][1-2]$/i, line 33
ExpectedPattern(s) ==
    Len(s) = 2 /\ UpperChar(s[1]) \in GroupLetters /\ s[2] \in GroupDigits

\* s.match(/([A-H])\s*([1-2])/i), lines 43 and 48: match[1] + match[2] of the
\* leftmost match, or <<>> when there is none.
GroupSearch(s) ==
    LET n == Len(s)
        at(i) == LET q == SkipSpace(s, i + 1) IN
                 UpperChar(s[i]) \in GroupLetters /\ q <= n /\ s[q] \in GroupDigits
        pos == {i \in 1..n : at(i)}
    IN  IF pos = {} THEN <<>>
        ELSE LET i == CHOOSE i \in pos : \A j \in pos : i <= j IN
             <<s[i], s[SkipSpace(s, i + 1)]>>

Returned(v) == [threw |-> FALSE, value |-> v]

\* "x.match is not a function": the TypeError a number raises at lines 43 and 48.
Thrown == [threw |-> TRUE, value |-> <<>>]

\* lines 31-53
deriveLearnerGroup(learnerGroupField, sessionName, sectionName) ==
    LET explicit == IF Truthy(learnerGroupField) THEN Trim(learnerGroupField.s) ELSE <<>>
        group1 == IF ExpectedPattern(explicit) THEN explicit ELSE <<>>
        useSection == group1 = <<>> /\ Truthy(sectionName)
        group2 == IF useSection /\ sectionName.t = "str" /\ GroupSearch(sectionName.s) # <<>>
                  THEN GroupSearch(sectionName.s) ELSE group1
        useSession == group2 = <<>> /\ Truthy(sessionName)
        group3 == IF useSession /\ sessionName.t = "str" /\ GroupSearch(sessionName.s) # <<>>
                  THEN GroupSearch(sessionName.s) ELSE group2
    IN  IF useSection /\ sectionName.t = "num" THEN Thrown
        ELSE IF useSession /\ sessionName.t = "num" THEN Thrown
        ELSE IF group3 # <<>> THEN Returned(ToUpper(Trim(group3)))
        ELSE Returned(Ungrouped)

-----------------------------------------------------------------------------
(* Inputs of the time parser *)

MaxHour == 25

MaxMinute == 61

MilitaryCases ==
    {[form |-> "military", h |-> h, m |-> m, colon |-> c, pad |-> p, withMin |-> TRUE,
      space |-> FALSE, pm |-> FALSE, upper |-> FALSE, word |-> <<>>] :
        h \in 0..MaxHour, m \in 0..MaxMinute, c \in BOOLEAN, p \in BOOLEAN}

TwelveHourCases ==
    {[form |-> "twelve", h |-> h, m |-> m, colon |-> wm, pad |-> FALSE, withMin |-> wm,
      space |-> sp, pm |-> pm, upper |-> up, word |-> <<>>] :
        h \in 0..MaxHour, m \in 0..MaxMinute, wm \in BOOLEAN, sp \in BOOLEAN,
        pm \in BOOLEAN, up \in BOOLEAN}

WordCases ==
    {[form |-> "word", h |-> 0, m |-> 0, colon |-> FALSE, pad |-> FALSE, withMin |-> FALSE,
      space |-> FALSE, pm |-> FALSE, upper |-> up, word |-> w] :
        up \in BOOLEAN, w \in {Noon, Midnight}}

TimeCases == MilitaryCases \cup TwelveHourCases \cup WordCases

\* The text of a case: "H:MM", "HMM", "H[:MM] am|pm", "noon", "midnight".
TimeText(c) ==
    LET hour == IF c.pad THEN Pad2(c.h) ELSE NatStr(c.h)
        period == IF c.pm THEN <<"p", "m">> ELSE <<"a", "m">>
    IN  IF c.form = "military"
        THEN hour \o (IF c.colon THEN <<":">> ELSE <<>>) \o Pad2(c.m)
        ELSE IF c.form = "twelve"
        THEN hour \o (IF c.withMin THEN <<":">> \o Pad2(c.m) ELSE <<>>)
                  \o (IF c.space THEN <<" ">> ELSE <<>>)
                  \o (IF c.upper THEN ToUpper(period) ELSE period)
        ELSE IF c.upper THEN ToUpper(c.word) ELSE c.word

IdleTimeCase == CHOOSE c \in WordCases : c.word = Noon /\ ~c.upper

IdleTimeOut == [done |-> FALSE, res |-> TimeNull]

-----------------------------------------------------------------------------
(* Date-time combiner *)

Null == [kind |-> "null", day |-> 0, min |-> 0]

\* A Date object whose time value is NaN ("Invalid Date").
InvalidDate == [kind |-> "invalid", day |-> 0, min |-> 0]

\* The largest time value of a Date is 8.64e15 ms: 100,000,000 days from the epoch.
MaxDateDays == 100000000

MinutesPerDay == 1440

InDateRange(day, min) ==
    \/ (day >= 0 - MaxDateDays /\ day < MaxDateDays)
    \/ (day = MaxDateDays /\ min = 0)

MkDate(day, min) ==
    IF InDateRange(day, min) THEN [kind |-> "date", day |-> day, min |-> min] ELSE InvalidDate

\* A relational comparison of two Dates compares their time values; with NaN
\* on either side it is false.
DateLt(a, b) ==
    a.kind = "date" /\ b.kind = "date" /\ (a.day < b.day \/ (a.day = b.day /\ a.min < b.min))

DateGe(a, b) ==
    a.kind = "date" /\ b.kind = "date" /\ (a.day > b.day \/ (a.day = b.day /\ a.min >= b.min))

LegacyPrefix == <<"+", "0", "5", "7", "3", "4", "2">>

LegacyYear == <<"2", "0", "2", "3">>

\* lines 58-69, for the strings parseDateTime is called with
fixInvalidDate(dateInput) ==
    IF StartsWith(dateInput, LegacyPrefix)
    THEN LegacyYear \o SubSeq(dateInput, Len(LegacyPrefix) + 1, Len(dateInput))
    ELSE dateInput

\* The position after the digits that start at p.
RECURSIVE SkipDigits(_, _)
SkipDigits(s, p) == IF p <= Len(s) /\ IsDigit(s[p]) THEN SkipDigits(s, p + 1) ELSE p

\* !isNaN(s), line 124: Number(s) is a number for white space alone (0), for
\* a signed decimal literal with an optional fraction and exponent, and for
\* a signed "Infinity".  (The 0x, 0o and 0b literals are not among the
\* inputs of this model.)
IsNumeric(str) ==
    LET s == Trim(str)
        n == Len(s)
        p0 == IF n >= 1 /\ s[1] \in {"+", "-"} THEN 2 ELSE 1
        p1 == SkipDigits(s, p0)
        p2 == IF p1 <= n /\ s[p1] = "." THEN SkipDigits(s, p1 + 1) ELSE p1
        mantissa == (p1 - p0) + (IF p2 > p1 THEN p2 - p1 - 1 ELSE 0) >= 1
        hasExp == p2 <= n /\ s[p2] \in {"e", "E"}
        e0 == IF p2 + 1 <= n /\ s[p2 + 1] \in {"+", "-"} THEN p2 + 2 ELSE p2 + 1
        e1 == SkipDigits(s, e0)
    IN  \/ s = <<>>
        \/ SubSeq(s, p0, n) = <<"I", "n", "f", "i", "n", "i", "t", "y">>
        \/ mantissa /\ ~hasExp /\ p2 = n + 1
        \/ mantissa /\ hasExp /\ e1 > e0 /\ e1 = n + 1

IsLeapYear(y) == (y % 4 = 0 /\ y % 100 # 0) \/ y % 400 = 0

DaysInMonth(y, m) ==
    IF m = 2 THEN (IF IsLeapYear(y) THEN 29 ELSE 28)
    ELSE IF m \in {4, 6, 9, 11} THEN 30 ELSE 31

\* The day number of a civil date, counted from 1970-01-01.
DaysFromCivil(y, m, d) ==
    LET yy == IF m <= 2 THEN y - 1 ELSE y
        era == yy \div 400
        yoe == yy - era * 400
        mp == (m + 9) % 12
        doy == (153 * mp + 2) \div 5 + d - 1
        doe == yoe * 365 + yoe \div 4 - yoe \div 100 + doy
    IN  era * 146097 + doe - 719468

MonthNames == <<<<"j", "a", "n">>, <<"f", "e", "b">>, <<"m", "a", "r">>, <<"a", "p", "r">>, <<"m", "a", "y">>, <<"j", "u", "n">>, <<"j", "u", "l">>, <<"a", "u", "g">>, <<"s", "e", "p">>, <<"o", "c", "t">>, <<"n", "o", "v">>, <<"d", "e", "c">>>>

\* dateFormats, lines 137-145.  In a format Y, M and D stand for one digit of
\* the year, month and day, N for one letter of the month's short name (MMM);
\* every other character stands for itself.
dateFormats == <<
    <<"Y", "Y", "Y", "Y", "M", "M", "D", "D">>,
    <<"Y", "Y", "Y", "Y", "-", "M", "M", "-", "D", "D">>,
    <<"M", "M", "/", "D", "D", "/", "Y", "Y", "Y", "Y">>,
    <<"D", "D", "-", "M", "M", "-", "Y", "Y", "Y", "Y">>,
    <<"N", "N", "N", " ", "D", "D", ",", " ", "Y", "Y", "Y", "Y">>,
    <<"D", "D", " ", "N", "N", "N", " ", "Y", "Y", "Y", "Y">>,
    <<"Y", "Y", "Y", "Y", "/", "M", "M", "/", "D", "D">>>>

\* The characters of s at the places where the format has the token.
FormatField(s, fmt, tok) ==
    LET idx == {i \in 1..Len(fmt) : fmt[i] = tok} IN
    IF idx = {} THEN <<>>
    ELSE LET first == CHOOSE i \in idx : \A j \in idx : i <= j IN
         SubSeq(s, first, first + Cardinality(idx) - 1)

\* moment(s, fmt, true): strict parsing wants the exact shape of the format
\* (four digits of year, two of month and day, the separators as written).
FormatShape(s, fmt) ==
    /\ Len(s) = Len(fmt)
    /\ \A i \in 1..Len(fmt) :
          IF fmt[i] \in {"Y", "M", "D"} THEN IsDigit(s[i])
          ELSE IF fmt[i] = "N" THEN IsAlpha(s[i])
          ELSE s[i] = fmt[i]

FormatMonth(s, fmt) ==
    LET name == ToLower(FormatField(s, fmt, "N"))
        named == {i \in 1..12 : MonthNames[i] = name}
    IN  IF name = <<>> THEN parseInt(FormatField(s, fmt, "M"))
        ELSE IF named = {} THEN 0 ELSE CHOOSE i \in named : TRUE

\* .isValid() of a strict parse: the shape, and a day that exists.
StrictValid(s, fmt) ==
    /\ FormatShape(s, fmt)
    /\ LET y == parseInt(FormatField(s, fmt, "Y"))
           m == FormatMonth(s, fmt)
           d == parseInt(FormatField(s, fmt, "D"))
       IN  m \in 1..12 /\ d >= 1 /\ d <= DaysInMonth(y, m)

StrictDay(s, fmt) ==
    DaysFromCivil(parseInt(FormatField(s, fmt, "Y")), FormatMonth(s, fmt),
                  parseInt(FormatField(s, fmt, "D")))

ExcelEpochSerial == 25569

ExcelSerialLimit == 100000

ExcelLeapBugSerial == 59

\* lines 124-135: the Excel serial-day path.  date.setHours(NaN, m) leaves an
\* Invalid Date, and so does a serial whose day lies outside the range of Date.
ExcelSerialDateTime(numDate, time) ==
    LET day0 == numDate - ExcelEpochSerial
        valid0 == InDateRange(day0, 0)
        day == IF numDate > ExcelLeapBugSerial THEN day0 - 1 ELSE day0
    IN  IF time.isNull THEN Null
        ELSE IF ~valid0 \/ time.hours = NaN \/ time.minutes = NaN THEN InvalidDate
        ELSE MkDate(day, time.hours * 60 + time.minutes)

\* lines 137-160: the formatted-date path.  moment's set() ignores a NaN
\* value, so NaN hours leave the hour of the parsed date (0) in place.
FormattedDateTime(fixedDateString, time) ==
    \* the first format of the list that parses the string
    LET first == CHOOSE i \in 1..(Len(dateFormats) + 1) :
                    /\ i <= Len(dateFormats) => StrictValid(fixedDateString, dateFormats[i])
                    /\ \A j \in 1..(i - 1) : ~StrictValid(fixedDateString, dateFormats[j])
    IN  IF first > Len(dateFormats) THEN Null
        ELSE IF time.isNull THEN Null
        ELSE LET hours == IF time.hours = NaN THEN 0 ELSE time.hours
                 minutes == IF time.minutes = NaN THEN 0 ELSE time.minutes
                 combined == MkDate(StrictDay(fixedDateString, dateFormats[first]),
                                    hours * 60 + minutes)
             IN  IF combined.kind = "invalid" THEN Null ELSE combined

\* lines 121-160, with the date string fixed and the time parsed
CombineDateTime(fixedDateString, time) ==
    IF IsNumeric(fixedDateString) /\ JsLt(parseInt(fixedDateString), ExcelSerialLimit)
    THEN ExcelSerialDateTime(parseInt(fixedDateString), time)
    ELSE FormattedDateTime(fixedDateString, time)

\* lines 115-165
parseDateTime(dateString, timeValue) ==
    IF dateString = <<>> \/ ~Truthy(timeValue) THEN Null
    ELSE Eval(LAMBDA time : Eval(LAMBDA fixedDateString : CombineDateTime(fixedDateString, time),
                                 fixInvalidDate(dateString)),
              parseTime(timeValue))

-----------------------------------------------------------------------------
(* Row normalizer *)

RequiredHeaders == {"section date", "start time", "end time"}

Columns == RequiredHeaders \cup {"session name", "section name", "section", "learner group"}

\* a || b
OrElse(a, b) == IF Truthy(a) THEN a ELSE b

\* getExcelField, lines 271-274: the cell under the header, "" without it
getExcelField(headerRow, row, name) == IF name \in headerRow THEN row[name] ELSE EmptyCell

\* getField, lines 370-375: a CSV cell is text (dynamicTyping: false); "" without the key
getField(headerRow, row, name) ==
    IF name \in headerRow THEN OrElse(Str(row[name].s), EmptyCell) ELSE EmptyCell

AddDay(d) == IF d.kind = "date" THEN MkDate(d.day + 1, d.min) ELSE d

Accept(end) == [skip |-> FALSE, end |-> end]

Skip == [skip |-> TRUE, end |-> Null]

\* AdjustEnd with the test start > end: equal times are not adjusted.
AdjustEnd_strict(start, end) ==
    IF DateLt(end, start)
    THEN IF DateLt(start, AddDay(end)) THEN Accept(AddDay(end)) ELSE Skip
    ELSE Accept(end)

\* lines 318-328 and 407-417
AdjustEnd(start, end) ==
    IF DateGe(start, end)
    THEN IF DateLt(start, AddDay(end)) THEN Accept(AddDay(end)) ELSE Skip
    ELSE Accept(end)

Event(start, end, learnerGroup) == [start |-> start, end |-> end, learnerGroup |-> learnerGroup]

HasAlpha(s) == \E i \in 1..Len(s) : IsAlpha(s[i])

\* lines 297-337 and 390-432: the checks and the record of one row, the same
\* in both paths; then the filter of lines 342-345 and 437-440.
RowRecord(sectionDate, start, end, learnerGroup) ==
    LET adjusted == AdjustEnd(start, end)
        record == Event(start, adjusted.end, learnerGroup)
    IN  IF sectionDate = <<>> THEN <<>>
        ELSE IF HasAlpha(sectionDate) /\ ~StrictValid(sectionDate, dateFormats[1]) THEN <<>>
        ELSE IF start.kind = "null" \/ end.kind = "null" THEN <<>>
        ELSE IF adjusted.skip THEN <<>>
        ELSE IF record.start.kind # "null" /\ record.end.kind # "null" THEN <<record>>
        ELSE <<>>

\* One row, from its cells: the classifier runs first (lines 291 and 384), and
\* an exception it raises is caught (lines 338 and 433) and the row skipped.
RowFromCells(sectionDate, startTime, endTime, derived) ==
    IF derived.threw THEN <<>>
    ELSE Eval(LAMBDA start :
                 Eval(LAMBDA end : RowRecord(sectionDate, start, end, derived.value),
                      parseDateTime(sectionDate, endTime)),
              parseDateTime(sectionDate, startTime))

\* lines 269-341: one spreadsheet row.  An exception of the classifier is
\* caught at line 338 and the row is skipped.
ExcelRow(headerRow, row) ==
    LET sessionName == getExcelField(headerRow, row, "session name")
        sectionName == OrElse(getExcelField(headerRow, row, "section name"),
                              getExcelField(headerRow, row, "section"))
        sectionDate == Trim(getExcelField(headerRow, row, "section date").s)
    IN  Eval(LAMBDA derived :
                RowFromCells(sectionDate, getExcelField(headerRow, row, "start time"),
                             getExcelField(headerRow, row, "end time"), derived),
             deriveLearnerGroup(getExcelField(headerRow, row, "learner group"),
                                sessionName, sectionName))

\* lines 368-436: one CSV row
CSVRow(headerRow, row) ==
    LET sessionName == getField(headerRow, row, "session name")
        sectionName == OrElse(getField(headerRow, row, "section name"),
                              getField(headerRow, row, "section"))
    IN  Eval(LAMBDA derived :
                RowFromCells(getField(headerRow, row, "section date").s,
                             getField(headerRow, row, "start time"),
                             getField(headerRow, row, "end time"), derived),
             deriveLearnerGroup(getField(headerRow, row, "learner group"),
                                sessionName, sectionName))

\* flatMap over the rows
RECURSIVE FlatMapRows(_, _, _)
FlatMapRows(kind, headerRow, rows) ==
    IF rows = <<>> THEN <<>>
    ELSE (IF kind = "excel" THEN ExcelRow(headerRow, Head(rows)) ELSE CSVRow(headerRow, Head(rows)))
         \o FlatMapRows(kind, headerRow, Tail(rows))

Row(date, start, end, session, section, group) ==
    [c \in Columns |->
        CASE c = "section date" -> date
          [] c = "start time" -> start
          [] c = "end time" -> end
          [] c = "session name" -> session
          [] c = "section name" -> section
          [] c = "learner group" -> group
          [] OTHER -> EmptyCell]

-----------------------------------------------------------------------------
(* Inputs of the classifier and of the row normalizer *)

GroupFieldCells == {EmptyCell, Str(<<"a", "1">>), Str(<<"Z", "9">>), Str(<<" ", "b", "2", " ">>), Str(<<"H", "2">>), Str(<<"A", "3">>),
                    Num(<<"7">>), Num(<<"0">>)}

NameCells == {EmptyCell, Str(<<"L", "e", "c", "t", "u", "r", "e", " ", "B", "2", " ", "R", "e", "v", "i", "e", "w">>), Str(<<"s", "e", "c", " ", "c", " ", "1">>), Str(<<"x", "y", "z">>), Str(<<"I", "1">>), Num(<<"7">>), Num(<<"0">>)}

GroupCases == {[group |-> g, session |-> n1, section |-> n2] :
                  g \in GroupFieldCells, n1 \in NameCells, n2 \in NameCells}

IdleGroupCase == [group |-> EmptyCell, session |-> EmptyCell, section |-> EmptyCell]

IdleGroupOut == [done |-> FALSE, res |-> Returned(<<>>)]

DateCells == {EmptyCell, Str(<<"2", "0", "2", "4", "0", "1", "1", "5">>), Str(<<"2", "0", "2", "4", "-", "0", "1", "-", "1", "5">>), Str(<<" ", "2", "0", "2", "4", "0", "1", "1", "5">>), Str(<<"J", "a", "n", " ", "1", "5", ",", " ", "2", "0", "2", "4">>),
              Str(<<"+", "0", "5", "7", "3", "4", "2", "0", "1", "1", "5">>), Num(<<"4", "5", "0", "0", "0">>), Num(<<"-", "1", "0", "0", "0", "0", "0", "0", "0", "0">>)}

TimeCells == {EmptyCell, Str(<<"1", "4", ":", "0", "0">>), Str(<<"1", "3", ":", "0", "0">>), Num(<<"1", "4", "0", "0">>), Str(<<"2", ":", "0", "0", " ", "p", "m">>), Str(<<"1", "1", ":", "0", "0", " ", "a", "m">>),
              Str(<<"n", "o", "o", "n">>), Str(<<"m", "i", "d", "n", "i", "g", "h", "t">>), Str(<<"2", "5", ":", "0", "0">>)}

RowCases == {[kind |-> k, row |-> Row(d, t1, t2, n, EmptyCell, g)] :
                k \in {"excel", "csv"}, d \in DateCells, t1 \in TimeCells, t2 \in TimeCells,
                n \in {EmptyCell, Str(<<"L", "e", "c", "t", "u", "r", "e", " ", "B", "2", " ", "R", "e", "v", "i", "e", "w">>), Num(<<"7">>)}, g \in {EmptyCell, Str(<<"a", "1">>)}}

IdleRowCase == [kind |-> "csv", row |-> Row(EmptyCell, EmptyCell, EmptyCell, EmptyCell,
                                             EmptyCell, EmptyCell)]

IdleRowOut == [done |-> FALSE, records |-> <<>>]

-----------------------------------------------------------------------------
(* Uploaded files *)

MaxRows == 2

MaxEvents == 3

SeqsUpTo(set, n) == UNION {[1..k -> set] : k \in 0..n}

\* The rows of the uploaded sheets: a plain row, a row whose serial day lies
\* outside the range of Date, and a row that ends before it starts.
StoreRows == {
    Row(Str(<<"2", "0", "2", "4", "0", "1", "1", "5">>), Str(<<"1", "3", ":", "0", "0">>), Str(<<"1", "4", ":", "0", "0">>), EmptyCell, EmptyCell, Str(<<"a", "1">>)),
    Row(Num(<<"-", "1", "0", "0", "0", "0", "0", "0", "0", "0">>), Str(<<"1", "3", ":", "0", "0">>), Str(<<"1", "4", ":", "0", "0">>), EmptyCell, EmptyCell, EmptyCell),
    Row(Str(<<"2", "0", "2", "4", "0", "1", "1", "5">>), Str(<<"1", "4", ":", "0", "0">>), Str(<<"1", "3", ":", "0", "0">>), Str(<<"L", "e", "c", "t", "u", "r", "e", " ", "B", "2", " ", "R", "e", "v", "i", "e", "w">>), EmptyCell, EmptyCell)}

HeaderRows == {Columns, Columns \ {"start time"}}

File(kind, readable, wellFormed, headerRow, rows) ==
    [kind |-> kind, readable |-> readable, wellFormed |-> wellFormed,
     headerRow |-> headerRow, rows |-> rows]

NoFile == File("none", TRUE, TRUE, {}, <<>>)

\* readable: the file read succeeds; wellFormed: XLSX.read gives a sheet with
\* at least a header row.
Files ==
    {File(k, TRUE, TRUE, h, rows) :
        k \in {"excel", "csv"}, h \in HeaderRows, rows \in SeqsUpTo(StoreRows, MaxRows)}
    \cup {File("excel", TRUE, FALSE, {}, <<>>), File("excel", FALSE, TRUE, {}, <<>>),
          File("csv", FALSE, TRUE, {}, <<>>), File("other", TRUE, TRUE, {}, <<>>)}

-----------------------------------------------------------------------------
(* Event store and its handlers *)

Status(msg, n) == [msg |-> msg, n |-> n]

Idle == [phase |-> "idle", file |-> NoFile]

\* learnerGroup of a record the form builds (lines 651-655): undefined
NoGroup == <<>>

\* The times the form's datetime-local inputs give (required, so always valid)
FormTimes == {MkDate(19737, 540), MkDate(19737, 600)}

DateLe(a, b) ==
    a.kind = "date" /\ b.kind = "date" /\ (a.day < b.day \/ (a.day = b.day /\ a.min <= b.min))

\* EventsAtUploadStart without the reset: the list is kept until the pass completes.
EventsAtUploadStart_keep(evs) == evs

\* setEvents([]), line 222
EventsAtUploadStart(evs) == <<>>

\* A selected event object that is no longer an element of the list
Detached(sel, old, new) == IF sel > 0 /\ new # old THEN -1 ELSE sel

\* "All Groups", line 210
AllGroups == <<"A", "l", "l", " ", "G", "r", "o", "u", "p", "s">>

\* Array.from(new Set(events.map((event) => event.learnerGroup))), lines
\* 182-183: the distinct values, in the order of their first occurrence.
DistinctGroups(evs) ==
    LET all == [i \in 1..Len(evs) |-> evs[i].learnerGroup]
        F[i \in 0..Len(evs)] ==
            IF i = 0 THEN <<>>
            ELSE IF \A j \in 1..(i - 1) : all[j] # all[i] THEN Append(F[i - 1], all[i])
            ELSE F[i - 1]
    IN  F[Len(evs)]

\* a.match(/([A-Za-z])\s*([1-2])/), lines 192-194: the groups of the leftmost
\* match, or <<>> when there is none.
SortMatch(s) ==
    LET n == Len(s)
        at(i) == LET q == SkipSpace(s, i + 1) IN
                 IsAlpha(s[i]) /\ q <= n /\ s[q] \in {"1", "2"}
        pos == {i \in 1..n : at(i)}
    IN  IF pos = {} THEN <<>>
        ELSE LET i == CHOOSE i \in pos : \A j \in pos : i <= j IN
             <<s[i], s[SkipSpace(s, i + 1)]>>

\* The rank of a character in the collation of localeCompare: white space,
\* digits, then the letters without regard to case; 0 for any other character.
CharRank(c) ==
    LET order == <<" ">> \o Digits \o Lowers
        at == {i \in 1..Len(order) : order[i] = LowerChar(c)}
    IN  IF at = {} THEN 0 ELSE CHOOSE i \in at : TRUE

RECURSIVE LexCompare(_, _)
LexCompare(a, b) ==
    IF a = <<>> THEN (IF b = <<>> THEN 0 ELSE -1)
    ELSE IF b = <<>> THEN 1
    ELSE IF CharRank(Head(a)) < CharRank(Head(b)) THEN -1
    ELSE IF CharRank(Head(a)) > CharRank(Head(b)) THEN 1
    ELSE LexCompare(Tail(a), Tail(b))

\* a.localeCompare(b), lines 201 and 203: the sign of the comparison; strings
\* that differ by case alone are ordered lower case first.
localeCompare(a, b) ==
    LET primary == LexCompare(a, b) IN
    IF primary # 0 \/ a = b THEN primary
    ELSE LET i == CHOOSE i \in 1..Len(a) : a[i] # b[i] /\ \A j \in 1..(i - 1) : a[j] = b[j]
         IN  IF a[i] \in Range(Lowers) THEN -1 ELSE 1

\* The comparator of groups.sort, lines 191-204
compareGroups(a, b) ==
    LET matchA == SortMatch(a)
        matchB == SortMatch(b)
    IN  IF matchA # <<>> /\ matchB # <<>>
        THEN LET letterA == UpperChar(matchA[1])
                 letterB == UpperChar(matchB[1])
             IN  IF letterA = letterB
                 THEN parseInt(<<matchA[2]>>) - parseInt(<<matchB[2]>>)
                 ELSE localeCompare(<<letterA>>, <<letterB>>)
        ELSE localeCompare(a, b)

RECURSIVE InsertGroup(_, _)
InsertGroup(sorted, g) ==
    IF sorted = <<>> THEN <<g>>
    ELSE IF compareGroups(g, Head(sorted)) < 0 THEN <<g>> \o sorted
    ELSE <<Head(sorted)>> \o InsertGroup(Tail(sorted), g)

\* SortGroups that leaves the list in the order of the events.
SortGroups_unsorted(groups) == groups

\* groups.sort(...), lines 191-204: a stable sort by the comparator
SortGroups(groups) ==
    LET F[i \in 0..Len(groups)] ==
            IF i = 0 THEN <<>> ELSE InsertGroup(F[i - 1], groups[i])
    IN  F[Len(groups)]

\* The effect of lines 181-211, the value it gives to availableGroups
groupsEffect(evs) ==
    LET groups == SelectSeq(DistinctGroups(evs), LAMBDA g : g # <<>>)
        hasUngrouped == \E i \in 1..Len(groups) : groups[i] = Ungrouped
        others == SelectSeq(groups, LAMBDA g : g # Ungrouped)
    IN  <<AllGroups>> \o SortGroups(others)
            \o (IF hasUngrouped THEN <<Ungrouped>> ELSE <<>>)

\* lines 216-244; the input is disabled while isProcessing (line 529)
HandleFileUpload(file) ==
    /\ ~isProcessing
    /\ events' = EventsAtUploadStart(events)
    /\ availableGroups' = groupsEffect(events')
    /\ selectedEvent' = Detached(selectedEvent, events, events')
    /\ CASE file.kind = "excel" ->
              /\ isProcessing' = TRUE
              /\ uploadStatus' = Status("Processing file...", 0)
              /\ pending' = [phase |-> "excelReading", file |-> file]
         [] file.kind = "csv" ->
              /\ isProcessing' = TRUE
              /\ uploadStatus' = Status("Processing file...", 0)
              /\ pending' = [phase |-> "csvParsing", file |-> file]
         [] OTHER ->
              /\ isProcessing' = FALSE
              /\ uploadStatus' = Status("Unsupported file type", 0)
              /\ pending' = Idle
    /\ UNCHANGED <<selectedSlot, tcase, tout, gcase, gout, rcase, rout>>

\* reader.onload, lines 251-355
ExcelOnLoad ==
    /\ pending.phase = "excelReading"
    /\ pending.file.readable
    /\ IF pending.file.wellFormed /\ RequiredHeaders \subseteq pending.file.headerRow
       THEN \E parsedEvents \in {FlatMapRows("excel", pending.file.headerRow,
                                              pending.file.rows)} :
                /\ events' = parsedEvents
                /\ availableGroups' = groupsEffect(events')
                /\ selectedEvent' = IF selectedEvent > 0 THEN -1 ELSE selectedEvent
                /\ uploadStatus' = Status("Loaded valid events from Excel", Len(parsedEvents))
       ELSE /\ uploadStatus' = Status("Error: Invalid Excel file structure", 0)
            /\ UNCHANGED <<events, availableGroups, selectedEvent>>
    /\ isProcessing' = FALSE
    /\ pending' = Idle
    /\ UNCHANGED <<selectedSlot, tcase, tout, gcase, gout, rcase, rout>>

\* The read of line 356 fails: the reader has no onerror handler, so no
\* state of the component changes.
ExcelReadError ==
    /\ pending.phase = "excelReading"
    /\ ~pending.file.readable
    /\ pending' = [pending EXCEPT !.phase = "readFailed"]
    /\ UNCHANGED <<events, availableGroups, selectedSlot, selectedEvent, uploadStatus, isProcessing,
                   tcase, tout, gcase, gout, rcase, rout>>

\* complete, lines 367-445
CSVComplete ==
    /\ pending.phase = "csvParsing"
    /\ pending.file.readable
    /\ \E parsedEvents \in {FlatMapRows("csv", pending.file.headerRow, pending.file.rows)} :
           /\ events' = parsedEvents
           /\ availableGroups' = groupsEffect(events')
           /\ uploadStatus' = Status("Loaded valid events from CSV", Len(parsedEvents))
    /\ selectedEvent' = IF selectedEvent > 0 THEN -1 ELSE selectedEvent
    /\ isProcessing' = FALSE
    /\ pending' = Idle
    /\ UNCHANGED <<selectedSlot, tcase, tout, gcase, gout, rcase, rout>>

\* error, lines 446-450
CSVError ==
    /\ pending.phase = "csvParsing"
    /\ ~pending.file.readable
    /\ uploadStatus' = Status("Error processing CSV file", 0)
    /\ isProcessing' = FALSE
    /\ pending' = Idle
    /\ UNCHANGED <<events, availableGroups, selectedSlot, selectedEvent, tcase, tout, gcase, gout, rcase, rout>>

\* lines 477-482 (and handleDateDoubleClick, lines 484-494)
HandleSelectSlot ==
    /\ selectedSlot' = TRUE
    /\ UNCHANGED <<events, availableGroups, selectedEvent, uploadStatus, isProcessing, pending,
                   tcase, tout, gcase, gout, rcase, rout>>

\* onSelectEvent, line 592
SelectEvent(i) ==
    /\ i \in 1..Len(events)
    /\ selectedEvent' = i
    /\ UNCHANGED <<events, availableGroups, selectedSlot, uploadStatus, isProcessing, pending,
                   tcase, tout, gcase, gout, rcase, rout>>

\* Cancel, lines 712-715
Cancel ==
    /\ selectedSlot \/ selectedEvent # 0
    /\ selectedSlot' = FALSE
    /\ selectedEvent' = 0
    /\ UNCHANGED <<events, availableGroups, uploadStatus, isProcessing, pending,
                   tcase, tout, gcase, gout, rcase, rout>>

\* lines 496-503
handleAddEvent(newEvent) ==
    IF DateLe(newEvent.end, newEvent.start)
    THEN UNCHANGED <<events, availableGroups, selectedSlot, selectedEvent>>
    ELSE /\ events' = Append(events, newEvent)
         /\ availableGroups' = groupsEffect(events')
         /\ selectedSlot' = FALSE
         /\ UNCHANGED selectedEvent

\* lines 505-510
handleUpdateEvent(updatedEvent) ==
    /\ events' = [i \in 1..Len(events) |-> IF i = selectedEvent THEN updatedEvent ELSE events[i]]
    /\ availableGroups' = groupsEffect(events')
    /\ selectedEvent' = 0
    /\ UNCHANGED selectedSlot

\* FormSubmit without the test of lines 656-659: the candidate goes to the
\* handlers as it is.
FormSubmit_unchecked(start, end) ==
    /\ selectedSlot \/ selectedEvent # 0
    /\ selectedSlot => Len(events) < MaxEvents
    /\ LET newEvent == Event(start, end, NoGroup) IN
       IF selectedSlot THEN handleAddEvent(newEvent) ELSE handleUpdateEvent(newEvent)
    /\ UNCHANGED <<uploadStatus, isProcessing, pending, tcase, tout, gcase, gout, rcase, rout>>

\* onSubmit, lines 642-663; the modal is there with a slot or an event selected (line 635)
FormSubmit(start, end) ==
    /\ selectedSlot \/ selectedEvent # 0
    /\ selectedSlot => Len(events) < MaxEvents
    /\ LET newEvent == Event(start, end, NoGroup) IN
       IF DateLe(newEvent.end, newEvent.start)
       THEN UNCHANGED <<events, availableGroups, selectedSlot, selectedEvent>>
       ELSE IF selectedSlot THEN handleAddEvent(newEvent) ELSE handleUpdateEvent(newEvent)
    /\ UNCHANGED <<uploadStatus, isProcessing, pending, tcase, tout, gcase, gout, rcase, rout>>

\* lines 512-515
HandleDeleteEvent(i) ==
    /\ i \in 1..Len(events)
    /\ events' = [j \in 1..(Len(events) - 1) |-> IF j < i THEN events[j] ELSE events[j + 1]]
    /\ availableGroups' = groupsEffect(events')
    /\ selectedEvent' = 0
    /\ UNCHANGED <<selectedSlot, uploadStatus, isProcessing, pending,
                   tcase, tout, gcase, gout, rcase, rout>>

-----------------------------------------------------------------------------
(* Steps that apply the pure functions to an input *)

ParseTimeStep ==
    /\ ~tout.done
    /\ tout' = [done |-> TRUE, res |-> parseTime(Str(TimeText(tcase)))]
    /\ UNCHANGED <<storeVars, tcase, gcase, gout, rcase, rout>>

DeriveGroupStep ==
    /\ ~gout.done
    /\ gout' = [done |-> TRUE,
                res |-> deriveLearnerGroup(gcase.group, gcase.session, gcase.section)]
    /\ UNCHANGED <<storeVars, tcase, tout, gcase, rcase, rout>>

NormalizeRowStep ==
    /\ ~rout.done
    /\ rout' = [done |-> TRUE, records |-> FlatMapRows(rcase.kind, Columns, <<rcase.row>>)]
    /\ UNCHANGED <<storeVars, tcase, tout, gcase, gout, rcase>>

-----------------------------------------------------------------------------
(* Specifications *)

InitStore ==
    /\ events = <<>>
    /\ selectedSlot = FALSE
    /\ selectedEvent = 0
    /\ uploadStatus = Status("", 0)
    /\ isProcessing = FALSE
    /\ pending = Idle
    /\ availableGroups = groupsEffect(events)

Init ==
    /\ InitStore
    /\ tcase = IdleTimeCase /\ tout = IdleTimeOut
    /\ gcase = IdleGroupCase /\ gout = IdleGroupOut
    /\ rcase = IdleRowCase /\ rout = IdleRowOut

Next ==
    \/ \E file \in Files : HandleFileUpload(file)
    \/ ExcelOnLoad
    \/ ExcelReadError
    \/ CSVComplete
    \/ CSVError
    \/ HandleSelectSlot
    \/ \E i \in 1..MaxEvents : SelectEvent(i)
    \/ Cancel
    \/ \E start \in FormTimes, end \in FormTimes : FormSubmit(start, end)
    \/ \E i \in 1..MaxEvents : HandleDeleteEvent(i)

Spec == Init /\ [][Next]_vars

\* A read or parse in flight ends: the browser delivers its load or error
\* event, and the parser calls complete or error.  Under Next these are the
\* steps ExcelOnLoad, ExcelReadError, CSVComplete and CSVError.
CallbackRuns ==
    /\ pending.phase \in {"excelReading", "csvParsing"}
    /\ pending' \in {Idle, [pending EXCEPT !.phase = "readFailed"]}

FairSpec == Spec /\ WF_pending(CallbackRuns)

InitTime ==
    /\ InitStore
    /\ tcase \in TimeCases /\ tout = IdleTimeOut
    /\ gcase = IdleGroupCase /\ gout = IdleGroupOut
    /\ rcase = IdleRowCase /\ rout = IdleRowOut

NextTime == ParseTimeStep

SpecTime == InitTime /\ [][NextTime]_vars

InitGroup ==
    /\ InitStore
    /\ tcase = IdleTimeCase /\ tout = IdleTimeOut
    /\ gcase \in GroupCases /\ gout = IdleGroupOut
    /\ rcase = IdleRowCase /\ rout = IdleRowOut

NextGroup == DeriveGroupStep

SpecGroup == InitGroup /\ [][NextGroup]_vars

InitRow ==
    /\ InitStore
    /\ tcase = IdleTimeCase /\ tout = IdleTimeOut
    /\ gcase = IdleGroupCase /\ gout = IdleGroupOut
    /\ rcase \in RowCases /\ rout = IdleRowOut

NextRow == NormalizeRowStep

SpecRow == InitRow /\ [][NextRow]_vars

-----------------------------------------------------------------------------
(* Properties *)

\* What the normalizer reads from the row at hand
RowDate(c) ==
    IF c.kind = "excel" THEN Trim(c.row["section date"].s) ELSE c.row["section date"].s

RowCell(c, name) == IF c.kind = "excel" THEN c.row[name] ELSE Str(c.row[name].s)

RowStart(c) == parseDateTime(RowDate(c), RowCell(c, "start time"))

RowEnd(c) == parseDateTime(RowDate(c), RowCell(c, "end time"))

RowDerived(c) ==
    deriveLearnerGroup(RowCell(c, "learner group"), RowCell(c, "session name"),
                       OrElse(RowCell(c, "section name"), RowCell(c, "section")))

\* The row is skipped before its times are compared: the classifier raised,
\* or the date holds a letter.
SkippedBeforeCompare(c) == RowDerived(c).threw \/ HasAlpha(RowDate(c))

MinutesBetween(a, b) == (b.day - a.day) * MinutesPerDay + (b.min - a.min)

\* C1: every stored event satisfies end > start.
C1_EndAfterStart ==
    \A i \in 1..Len(events) : DateLt(events[i].start, events[i].end)

\* C2 (as claimed): a row whose start and end parse to the same instant
\* emits no record.
C2_SameInstantRejected ==
    (rout.done /\ RowStart(rcase).kind = "date" /\ RowStart(rcase) = RowEnd(rcase))
        => rout.records = <<>>

\* C2 (amended): a row whose start and end parse to the same instant is not
\* rejected by the comparison of its times: unless an earlier step skipped it,
\* it emits exactly one record, with its end one day (24 h) after its start.
C2_SameInstantRolled ==
    (rout.done /\ RowStart(rcase).kind = "date" /\ RowStart(rcase) = RowEnd(rcase))
        => IF SkippedBeforeCompare(rcase) THEN rout.records = <<>>
           ELSE /\ Len(rout.records) = 1
                /\ rout.records[1].start = RowStart(rcase)
                /\ rout.records[1].end.kind = "date"
                /\ MinutesBetween(rout.records[1].start, rout.records[1].end) = 24 * 60

C2_Witness ==
    /\ rout.done
    /\ RowStart(rcase).kind = "date"
    /\ RowStart(rcase) = RowEnd(rcase)
    /\ Len(rout.records) = 1
    /\ rout.records[1].end = AddDay(RowStart(rcase))

\* C3: the event store never holds an event whose start or end is not a
\* valid timestamp (a row the combiner cannot resolve is skipped).
C3_StoredTimestampsValid ==
    \A i \in 1..Len(events) : events[i].start.kind = "date" /\ events[i].end.kind = "date"

\* The result the 12-hour conversion is claimed to give
TwelveHourExpected(c) ==
    LET hours == IF c.pm /\ c.h # 12 THEN c.h + 12
                 ELSE IF ~c.pm /\ c.h = 12 THEN 0 ELSE c.h
        minutes == IF c.withMin THEN c.m ELSE 0
    IN  IF hours > 23 \/ minutes > 59 THEN TimeNull ELSE Time(hours, minutes)

\* C4: "H[:MM] am|pm" gives the 24-hour equivalent or null when out of
\* range, "noon" gives 12:00 and "midnight" gives 0:00.
C4_TwelveHourConversion ==
    /\ (tout.done /\ tcase.form = "twelve") => tout.res = TwelveHourExpected(tcase)
    /\ (tout.done /\ tcase.form = "word" /\ tcase.word = Noon) => tout.res = Time(12, 0)
    /\ (tout.done /\ tcase.form = "word" /\ tcase.word = Midnight) => tout.res = Time(0, 0)

\* C5: a military time "H:MM" or "HMM" gives exactly {H, MM} when H <= 23 and
\* MM <= 59, and null when H > 23 or MM > 59.
C5_MilitaryExact ==
    (tout.done /\ tcase.form = "military")
        => tout.res = IF tcase.h <= 23 /\ tcase.m <= 59 THEN Time(tcase.h, tcase.m)
                      ELSE TimeNull

C5_Witness ==
    /\ tout.done
    /\ tcase.form = "military" /\ ~tcase.colon /\ ~tcase.pad
    /\ tcase.h = 9 /\ tcase.m = 45
    /\ tout.res = Time(9, 45)

\* C6: a row whose end is earlier in the day than its start is accepted,
\* with its end one day later: end - start = 24 h - (start - original end).
C6_EarlierEndRolled ==
    (rout.done /\ DateLt(RowEnd(rcase), RowStart(rcase)))
        => /\ Len(rout.records) = 1
           /\ rout.records[1].start = RowStart(rcase)
           /\ rout.records[1].end = AddDay(RowEnd(rcase))
           /\ MinutesBetween(rout.records[1].start, rout.records[1].end)
                  = 24 * 60 - MinutesBetween(RowEnd(rcase), RowStart(rcase))

\* C7: deriveLearnerGroup never fails and returns one of the 16 codes or
\* "Ungrouped", whatever the three cells hold.
C7_NeverFails ==
    gout.done => (~gout.res.threw /\ gout.res.value \in GroupCodes \cup {Ungrouped})

LoadedMessages == {"Loaded valid events from Excel", "Loaded valid events from CSV"}

\* An upload of a sheet with a header row ends in this step
UploadEnds ==
    /\ pending.phase \in {"excelReading", "csvParsing"}
    /\ pending.file.readable /\ pending.file.wellFormed
    /\ pending'.phase = "idle"

\* C8: an upload whose header row lacks a required column ends with a failure
\* status and an empty event store.
C8_MissingColumnAborts ==
    [][(UploadEnds /\ ~(RequiredHeaders \subseteq pending.file.headerRow))
          => (uploadStatus'.msg \notin LoadedMessages /\ events' = <<>>)]_vars

UploadStarts == \E file \in Files : HandleFileUpload(file)

UploadLoads == UploadEnds /\ uploadStatus'.msg \in LoadedMessages

NewList(file) == FlatMapRows(file.kind, file.headerRow, file.rows)

\* C9 (as claimed): the store keeps the prior list when an upload starts and
\* holds the new list when its pass completes.
C9_PriorListKept ==
    [][/\ UploadStarts => events' = events
       /\ UploadLoads => events' = NewList(pending.file)]_vars

\* C9 (amended): the store is emptied when an upload starts, and holds
\* exactly the new upload's list when its pass completes with a list.
C9_ClearedThenReplaced ==
    [][/\ UploadStarts => events' = <<>>
       /\ UploadLoads => events' = NewList(pending.file)]_vars

\* An upload is in flight, the store is empty and the event that was selected
\* in the prior list is no longer in it.
C9_Witness ==
    isProcessing /\ pending.phase # "idle" /\ events = <<>> /\ selectedEvent = -1

\* C10: after an upload starts, isProcessing becomes false again.
C10_EventuallyIdle == isProcessing ~> ~isProcessing

\* The form is submitted with a candidate whose end is not after its start
SubmitsNotAfter ==
    \E start \in FormTimes, end \in FormTimes :
        DateLe(end, start) /\ FormSubmit(start, end)

\* C11: a form submission whose candidate has end <= start changes neither
\* the event list, nor the selected slot, nor the selected event.
C11_RejectedSubmitMutatesNothing ==
    [][SubmitsNotAfter => UNCHANGED <<events, selectedSlot, selectedEvent>>]_vars

\* The edit form is open on a stored event, where a candidate with end <= start
\* is submitted and the state stays as it is.
C11_Witness ==
    /\ ~selectedSlot /\ selectedEvent \in 1..Len(events)
    /\ \E start \in FormTimes, end \in FormTimes :
           DateLe(end, start) /\ ENABLED FormSubmit(start, end)

\* C12: the learnerGroup of every stored event is one of the 16 codes or
\* "Ungrouped".
C12_StoredGroupsCanonical ==
    \A i \in 1..Len(events) : events[i].learnerGroup \in GroupCodes \cup {Ungrouped}

\* The row's date is in a named-month notation that the combiner resolves
\* with both of the row's times, and the classifier returns.
NamedMonthRow(c) ==
    /\ HasAlpha(RowDate(c))
    /\ RowStart(c).kind = "date" /\ RowEnd(c).kind = "date"
    /\ ~RowDerived(c).threw

\* C13: a row whose date is in a named-month notation, with parseable start
\* and end times, yields one event record.
C13_NamedMonthRowKept ==
    (rout.done /\ NamedMonthRow(rcase)) => Len(rout.records) = 1

\* The 16 codes, by letter and then by digit
CodesInOrder ==
    <<<<"A", "1">>, <<"A", "2">>, <<"B", "1">>, <<"B", "2">>, <<"C", "1">>, <<"C", "2">>,
      <<"D", "1">>, <<"D", "2">>, <<"E", "1">>, <<"E", "2">>, <<"F", "1">>, <<"F", "2">>,
      <<"G", "1">>, <<"G", "2">>, <<"H", "1">>, <<"H", "2">>>>

HasGroup(g) == \E i \in 1..Len(events) : events[i].learnerGroup = g

====
